---- MODULE Spec2Model ----
(***************************************************************************)
(* Model of models/markov.py: the class Markov, an n-gram transition graph *)
(* with frequency accumulation, merging, probability view and sampling.    *)
(*                                                                         *)
(* Python values are represented as follows.                               *)
(*   token        record [type, v]; a str is [type |-> "str", v |-> s],    *)
(*                the value None is [type |-> "NoneType", v |-> "None"]    *)
(*   dict         sequence of entries [k |-> key, v |-> value] in          *)
(*                insertion order (dicts iterate in insertion order)       *)
(*   returned     record [type, v] with type "tuple", "list" or "dict" and *)
(*   value        v the sequence of elements or entries; a token as above  *)
(*   dict object  the inner suffix dicts are objects on a heap; the graph  *)
(*                of a model maps a prefix key to a reference, so that     *)
(*                sharing of an inner dict between models is expressible   *)
(*   float        IEEE-754 double, held exactly as NLimbs base-2^15 limbs  *)
(*                (one integer limb, FracLimbs fractional limbs)           *)
(***************************************************************************)
EXTENDS Integers, Sequences, FiniteSets, TLC

VARIABLES models, heap, last, walk, run

vars == <<models, heap, last, walk, run>>

-----------------------------------------------------------------------------
(* Bounds of the model                                                     *)

\* cap on the sum of all counts held (lifecycle specification)
MaxTotal == 3
\* cap on the sum of all counts held (specification with failing calls)
MaxErrTotal == 2
\* cap on the sum of all counts held (merge specification)
MaxMerged == 8
\* longest argument list passed to add_ngram
MaxArgs == 3
\* longest prefix passed to the read operations
MaxPrefix == 2
\* thresholds drawn are the multiples of 2^-ThreshBits in [0,1) and the
\* largest double below 1
ThreshBits == 1
\* cap on the length of the sequence built by random_sequence
MaxSeqLen == 4
\* trained models of the sampling specification: at most MaxSuffixes suffixes
\* under one prefix key, counts summing to at most MaxTrain
MaxSuffixes == 4
MaxTrain == 7
\* trained models of the merge specification: at most MaxCorpus n-grams each
MaxCorpus == 2

\* cap on the sum of all counts held (sharing specification)
MaxShared == 4

\* cap on the sum of all counts held (replay specification)
MaxReplayed == 6

\* cap on the sum of all counts held (ordering specification)
MaxOrdered == 4

-----------------------------------------------------------------------------
(* Tokens                                                                  *)

Str(s) == [type |-> "str", v |-> s]

None == [type |-> "NoneType", v |-> "None"]

IsStr(tok) == tok.type = "str"

\* the literal '' compared against in random_sequence
Terminal == Str("")

Tuple(elems) == [type |-> "tuple", v |-> elems]

List(elems) == [type |-> "list", v |-> elems]

Dict(entries) == [type |-> "dict", v |-> entries]

\* str tokens handed to the model by callers
Words == {Str(""), Str("a")}

\* suffix tokens of the trained models of the sampling specification, in the
\* order of their first ingestion
TrainSuffixes == <<Str("a"), Str(""), Str("b"), Str("c"), None>>

ModelIds == {"A", "B"}

SeqsUpTo(S, n) == UNION {[1..k -> S] : k \in 0..n}

-----------------------------------------------------------------------------
(* dict                                                                    *)

KeySet(d) == {d[i].k : i \in 1..Len(d)}

Has(d, key) == key \in KeySet(d)

IndexOf(d, key) == CHOOSE i \in 1..Len(d) : d[i].k = key

Get(d, key) == d[IndexOf(d, key)].v

\* variant: an assigned key always moves to the last position
PutLast(d, key, value) ==
    Append(SelectSeq(d, LAMBDA e : e.k # key), [k |-> key, v |-> value])

\* d[key] = value: an existing key keeps its position, a new key goes last
Put(d, key, value) ==
    IF Has(d, key)
    THEN [d EXCEPT ![IndexOf(d, key)] = [k |-> key, v |-> value]]
    ELSE Append(d, [k |-> key, v |-> value])

RECURSIVE SumValues(_)
SumValues(d) == IF d = <<>> THEN 0 ELSE Head(d).v + SumValues(Tail(d))

-----------------------------------------------------------------------------
(* ''.join(tokens)                                                         *)

CanJoin(toks) == \A i \in 1..Len(toks) : IsStr(toks[i])

\* variant: the tokens are joined with a separator
RECURSIVE JoinComma(_)
JoinComma(toks) ==
    IF toks = <<>> THEN ""
    ELSE IF Len(toks) = 1 THEN Head(toks).v
    ELSE Head(toks).v \o "," \o JoinComma(Tail(toks))

RECURSIVE Join(_)
Join(toks) == IF toks = <<>> THEN "" ELSE Head(toks).v \o Join(Tail(toks))

-----------------------------------------------------------------------------
(* float: IEEE-754 double arithmetic on the values that occur here, all in *)
(* [2^-7, 2): a value x is the limb sequence of x * 2^(LimbBits*FracLimbs) *)

Mantissa == 53
LimbBits == 15
FracLimbs == 4
LimbBase == 2 ^ LimbBits
NLimbs == FracLimbs + 1

RECURSIVE DivLimbs(_, _, _)
DivLimbs(r, t, k) ==
    IF k = 0 THEN <<>>
    ELSE <<(r * LimbBase) \div t>> \o DivLimbs((r * LimbBase) % t, t, k - 1)

RECURSIVE DivRem(_, _, _)
DivRem(r, t, k) == IF k = 0 THEN r ELSE DivRem((r * LimbBase) % t, t, k - 1)

RECURSIVE Carry(_, _)
Carry(x, i) ==
    IF i = 1 \/ x[i] < LimbBase THEN x
    ELSE Carry([x EXCEPT ![i] = @ - LimbBase, ![i - 1] = @ + 1], i - 1)

\* position of the leading one bit: -1 for [2,4), 0 for [1,2), j for
\* [2^-j, 2^(1-j))
LeadBit(x) ==
    IF x[1] >= 2 THEN -1
    ELSE IF x[1] = 1 THEN 0
    ELSE CHOOSE j \in 1..LimbBits : x[2] \div (2 ^ (LimbBits - j)) = 1

\* round to Mantissa significant bits, ties to even; inexact tells that the
\* true value lies strictly above x
RoundDouble(x, inexact) ==
    IF x[1] = 0 /\ x[2] = 0 THEN x
    ELSE LET q     == 2 ^ (LimbBits * FracLimbs - (LeadBit(x) + Mantissa - 1))
             low   == x[NLimbs] % q
             kept  == x[NLimbs] - low
             above == 2 * low > q \/ (2 * low = q /\ inexact)
             tie   == 2 * low = q /\ ~inexact
             up    == above \/ (tie /\ (kept \div q) % 2 = 1)
         IN  Carry([x EXCEPT ![NLimbs] = IF up THEN kept + q ELSE kept], NLimbs)

\* c / t for integers 0 < c <= t (true division, correctly rounded)
FloatDiv(c, t) ==
    RoundDouble(<<c \div t>> \o DivLimbs(c % t, t, FracLimbs),
                DivRem(c % t, t, FracLimbs) # 0)

RECURSIVE AddLimbs(_, _, _, _)
AddLimbs(a, b, i, c) ==
    IF i = 0 THEN <<>>
    ELSE LET s == a[i] + b[i] + c
         IN  IF i = 1 \/ s < LimbBase THEN Append(AddLimbs(a, b, i - 1, 0), s)
             ELSE Append(AddLimbs(a, b, i - 1, 1), s - LimbBase)

\* a + b
FloatAdd(a, b) == RoundDouble(AddLimbs(a, b, NLimbs, 0), FALSE)

\* a >= b
FloatGeq(a, b) ==
    a = b \/ \E i \in 1..NLimbs : a[i] > b[i] /\ \A j \in 1..(i - 1) : a[j] = b[j]

FloatZero == [i \in 1..NLimbs |-> 0]

FloatOne == [i \in 1..NLimbs |-> IF i = 1 THEN 1 ELSE 0]

\* k / 2^ThreshBits
Dyadic(k) == [i \in 1..NLimbs |-> IF i = 2 THEN k * 2 ^ (LimbBits - ThreshBits) ELSE 0]

\* 1 - 2^-Mantissa, the largest value random.random() returns
MaxRandom ==
    [i \in 1..NLimbs |->
        IF i = 1 THEN 0
        ELSE IF (i - 1) * LimbBits <= Mantissa THEN LimbBase - 1
        ELSE LimbBase - 2 ^ ((i - 1) * LimbBits - Mantissa)]

\* values of random.random() that are drawn
Thresholds == {Dyadic(k) : k \in 0..(2 ^ ThreshBits - 1)} \cup {MaxRandom}

-----------------------------------------------------------------------------
(* Markov: state                                                           *)

\* a slot not yet bound to a constructed model
NoModel == [n |-> 0, graph |-> <<>>]

Constructed(m) == models[m].n # 0

\* the inner dict object created by model m for a prefix key
Ref(m, key) == <<m, key>>

EmptyHeap == [r \in {} |-> <<>>]

\* sum of all counts held by the dict objects of hp
RECURSIVE AllCount(_)
AllCount(hp) ==
    IF DOMAIN hp = {} THEN 0
    ELSE LET r == CHOOSE x \in DOMAIN hp : TRUE
         IN  SumValues(hp[r]) + AllCount([x \in DOMAIN hp \ {r} |-> hp[x]])

-----------------------------------------------------------------------------
(* Markov.add_ngram, lines 37-52: the store after a call that passed the   *)
(* length check                                                            *)

\* variant: a new entry starts at 0
AddNgramStoreZero(ms, hp, m, ngram) ==
    LET source      == Join(SubSeq(ngram, 1, Len(ngram) - 1))
        destination == ngram[Len(ngram)]
        graph       == ms[m].graph
    IN  IF ~Has(graph, source)
        THEN [models |-> [ms EXCEPT ![m].graph = Put(graph, source, Ref(m, source))],
              heap   |-> (Ref(m, source) :> <<[k |-> destination, v |-> 0]>>) @@ hp]
        ELSE LET r == Get(graph, source)
             IN  IF ~Has(hp[r], destination)
                 THEN [models |-> ms,
                       heap   |-> [hp EXCEPT ![r] = Put(@, destination, 0)]]
                 ELSE [models |-> ms,
                       heap   |-> [hp EXCEPT ![r] =
                                     Put(@, destination, Get(@, destination) + 1)]]

\* variant: a destination new to a recorded source replaces the suffix dict
AddNgramStoreFresh(ms, hp, m, ngram) ==
    LET source      == Join(SubSeq(ngram, 1, Len(ngram) - 1))
        destination == ngram[Len(ngram)]
        graph       == ms[m].graph
    IN  IF ~Has(graph, source) \/ ~Has(hp[Get(graph, source)], destination)
        THEN [models |-> [ms EXCEPT ![m].graph = Put(graph, source, Ref(m, source))],
              heap   |-> [r \in DOMAIN hp \cup {Ref(m, source)} |->
                            IF r = Ref(m, source)
                            THEN <<[k |-> destination, v |-> 1]>> ELSE hp[r]]]
        ELSE LET r == Get(graph, source)
             IN  [models |-> ms,
                  heap   |-> [hp EXCEPT ![r] =
                                Put(@, destination, Get(@, destination) + 1)]]

AddNgramStore(ms, hp, m, ngram) ==
    LET source      == Join(SubSeq(ngram, 1, Len(ngram) - 1))
        destination == ngram[Len(ngram)]
        graph       == ms[m].graph
    IN  IF ~Has(graph, source)
        THEN [models |-> [ms EXCEPT ![m].graph = Put(graph, source, Ref(m, source))],
              heap   |-> (Ref(m, source) :> <<[k |-> destination, v |-> 1]>>) @@ hp]
        ELSE LET r == Get(graph, source)
             IN  IF ~Has(hp[r], destination)
                 THEN [models |-> ms,
                       heap   |-> [hp EXCEPT ![r] = Put(@, destination, 1)]]
                 ELSE [models |-> ms,
                       heap   |-> [hp EXCEPT ![r] =
                                     Put(@, destination, Get(@, destination) + 1)]]

-----------------------------------------------------------------------------
(* Markov.update, lines 102-110                                            *)

\* suffixes.copy(): a new dict object with the same items
CopyDict(hp, r, src) == (r :> hp[src]) @@ hp

\* variant: a count self already holds is raised by 1
RECURSIVE MergeSuffixesOne(_, _, _, _, _)
MergeSuffixesOne(hp, mine, theirs, suffixes, i) ==
    IF i > Len(suffixes) THEN hp
    ELSE LET suffix == suffixes[i].k
         IN  MergeSuffixesOne(
                 IF ~Has(hp[mine], suffix)
                 THEN [hp EXCEPT ![mine] = Put(@, suffix, Get(hp[theirs], suffix))]
                 ELSE [hp EXCEPT ![mine] = Put(@, suffix, Get(@, suffix) + 1)],
                 mine, theirs, suffixes, i + 1)

\* variant: a count self already holds is removed and stored anew
RECURSIVE MergeSuffixesMoveLast(_, _, _, _, _)
MergeSuffixesMoveLast(hp, mine, theirs, suffixes, i) ==
    IF i > Len(suffixes) THEN hp
    ELSE LET suffix == suffixes[i].k
         IN  MergeSuffixesMoveLast(
                 IF ~Has(hp[mine], suffix)
                 THEN [hp EXCEPT ![mine] = Put(@, suffix, Get(hp[theirs], suffix))]
                 ELSE [hp EXCEPT ![mine] =
                         PutLast(@, suffix, Get(@, suffix) + Get(hp[theirs], suffix))],
                 mine, theirs, suffixes, i + 1)

\* the inner loop over the suffixes of one prefix of markov_model; mine and
\* theirs are the dict objects self.graph[prefix] and markov_model.graph[prefix]
\* variant: the count of markov_model replaces the count of self
RECURSIVE MergeSuffixesAssign(_, _, _, _, _)
MergeSuffixesAssign(hp, mine, theirs, suffixes, i) ==
    IF i > Len(suffixes) THEN hp
    ELSE LET suffix == suffixes[i].k
         IN  MergeSuffixesAssign(
                 [hp EXCEPT ![mine] = Put(@, suffix, Get(hp[theirs], suffix))],
                 mine, theirs, suffixes, i + 1)

RECURSIVE MergeSuffixes(_, _, _, _, _)
MergeSuffixes(hp, mine, theirs, suffixes, i) ==
    IF i > Len(suffixes) THEN hp
    ELSE LET suffix == suffixes[i].k
         IN  MergeSuffixes(
                 IF ~Has(hp[mine], suffix)
                 THEN [hp EXCEPT ![mine] = Put(@, suffix, Get(hp[theirs], suffix))]
                 ELSE [hp EXCEPT ![mine] =
                         Put(@, suffix, Get(@, suffix) + Get(hp[theirs], suffix))],
                 mine, theirs, suffixes, i + 1)

\* variant: a prefix new to self gets the suffix dict of markov_model
\* itself, not a copy
RECURSIVE UpdateStoreAlias(_, _, _, _, _)
UpdateStoreAlias(ms, hp, m, other, i) ==
    IF i > Len(ms[other].graph) THEN [models |-> ms, heap |-> hp]
    ELSE LET prefix   == ms[other].graph[i].k
             suffixes == ms[other].graph[i].v
         IN  IF ~Has(ms[m].graph, prefix)
             THEN UpdateStoreAlias(
                      [ms EXCEPT ![m].graph = Put(@, prefix, suffixes)],
                      hp, m, other, i + 1)
             ELSE UpdateStoreAlias(
                      ms,
                      MergeSuffixes(hp, Get(ms[m].graph, prefix), suffixes,
                                    hp[suffixes], 1),
                      m, other, i + 1)

\* variant: a prefix self already records gets the suffix dict of
\* markov_model in place of its own
RECURSIVE UpdateStoreReplace(_, _, _, _, _)
UpdateStoreReplace(ms, hp, m, other, i) ==
    IF i > Len(ms[other].graph) THEN [models |-> ms, heap |-> hp]
    ELSE LET prefix   == ms[other].graph[i].k
             suffixes == ms[other].graph[i].v
         IN  UpdateStoreReplace(
                 [ms EXCEPT ![m].graph = Put(@, prefix, Ref(m, prefix))],
                 CopyDict(hp, Ref(m, prefix), suffixes), m, other, i + 1)

\* variant: a prefix self already records is skipped
RECURSIVE UpdateStoreUnion(_, _, _, _, _)
UpdateStoreUnion(ms, hp, m, other, i) ==
    IF i > Len(ms[other].graph) THEN [models |-> ms, heap |-> hp]
    ELSE LET prefix   == ms[other].graph[i].k
             suffixes == ms[other].graph[i].v
         IN  IF ~Has(ms[m].graph, prefix)
             THEN UpdateStoreUnion(
                      [ms EXCEPT ![m].graph = Put(@, prefix, Ref(m, prefix))],
                      CopyDict(hp, Ref(m, prefix), suffixes), m, other, i + 1)
             ELSE UpdateStoreUnion(ms, hp, m, other, i + 1)

\* the outer loop over markov_model.graph.items(), from item i on
RECURSIVE UpdateStore(_, _, _, _, _)
UpdateStore(ms, hp, m, other, i) ==
    IF i > Len(ms[other].graph) THEN [models |-> ms, heap |-> hp]
    ELSE LET prefix   == ms[other].graph[i].k
             suffixes == ms[other].graph[i].v
         IN  IF ~Has(ms[m].graph, prefix)
             THEN UpdateStore(
                      [ms EXCEPT ![m].graph = Put(@, prefix, Ref(m, prefix))],
                      CopyDict(hp, Ref(m, prefix), suffixes), m, other, i + 1)
             ELSE UpdateStore(
                      ms,
                      MergeSuffixes(hp, Get(ms[m].graph, prefix), suffixes,
                                    hp[suffixes], 1),
                      m, other, i + 1)

-----------------------------------------------------------------------------
(* Markov.get_suffixes, lines 68-83: [outcome, ret]                        *)

Raise(exc) == [outcome |-> exc, ret |-> None]

Return(value) == [outcome |-> "ok", ret |-> value]

\* variant: weight / total_weight is the integer division of Python 2
GetSuffixesOfFloorDiv(ms, hp, m, prefix) ==
    IF Len(prefix) # ms[m].n - 1 THEN Raise("ValueError")
    ELSE IF ~CanJoin(prefix) THEN Raise("TypeError")
    ELSE LET prefix_string == Join(prefix)
         IN  IF ~Has(ms[m].graph, prefix_string) THEN Return(Dict(<<>>))
             ELSE LET d            == hp[Get(ms[m].graph, prefix_string)]
                      total_weight == SumValues(d)
                  IN  Return(Dict([i \in 1..Len(d) |->
                                [k |-> d[i].k,
                                 v |-> [j \in 1..NLimbs |->
                                          IF j = 1 THEN d[i].v \div total_weight
                                          ELSE 0]]]))

GetSuffixesOf(ms, hp, m, prefix) ==
    IF Len(prefix) # ms[m].n - 1 THEN Raise("ValueError")
    ELSE IF ~CanJoin(prefix) THEN Raise("TypeError")
    ELSE LET prefix_string == Join(prefix)
         IN  IF ~Has(ms[m].graph, prefix_string) THEN Return(Dict(<<>>))
             ELSE LET d            == hp[Get(ms[m].graph, prefix_string)]
                      total_weight == SumValues(d)
                  IN  Return(Dict([i \in 1..Len(d) |->
                                [k |-> d[i].k, v |-> FloatDiv(d[i].v, total_weight)]]))

\* variant: the probability is stored under the prefix alone
GetNgramsOfPrefixKey(ms, hp, m, prefix) ==
    LET suffix_mapping == GetSuffixesOf(ms, hp, m, prefix)
    IN  IF suffix_mapping.outcome # "ok" THEN suffix_mapping
        ELSE IF suffix_mapping.ret.v = <<>> THEN Return(Dict(<<>>))
        ELSE Return(Dict(<<[k |-> Tuple(prefix),
                            v |-> suffix_mapping.ret.v[Len(suffix_mapping.ret.v)].v]>>))

(* Markov.get_ngrams, lines 89-93                                          *)
GetNgramsOf(ms, hp, m, prefix) ==
    LET suffix_mapping == GetSuffixesOf(ms, hp, m, prefix)
    IN  IF suffix_mapping.outcome # "ok" THEN suffix_mapping
        ELSE Return(Dict([i \in 1..Len(suffix_mapping.ret.v) |->
                       [k |-> Tuple(Append(prefix, suffix_mapping.ret.v[i].k)),
                        v |-> suffix_mapping.ret.v[i].v]]))

(* Markov.random_suffix, lines 113-118; a loop that ends without a return  *)
(* makes the call return None                                              *)
RECURSIVE Scan(_, _, _, _)
Scan(mapping, i, upto, threshhold) ==
    IF i > Len(mapping) THEN None
    ELSE LET acc == FloatAdd(upto, mapping[i].v)
         IN  IF FloatGeq(acc, threshhold) THEN mapping[i].k
             ELSE Scan(mapping, i + 1, acc, threshhold)

\* variant: a prefix that cannot be joined is treated as never observed
RandomSuffixOfLenient(ms, hp, m, prefix, threshhold) ==
    LET mapping == GetSuffixesOf(ms, hp, m, prefix)
    IN  IF mapping.outcome = "TypeError" THEN Return(None)
        ELSE IF mapping.outcome # "ok" THEN mapping
        ELSE Return(Scan(mapping.ret.v, 1, FloatZero, threshhold))

RandomSuffixOf(ms, hp, m, prefix, threshhold) ==
    LET mapping == GetSuffixesOf(ms, hp, m, prefix)
    IN  IF mapping.outcome # "ok" THEN mapping
        ELSE Return(Scan(mapping.ret.v, 1, FloatZero, threshhold))

\* variant: a suffix of None is returned as it is
RandomNgramOfAbsent(ms, hp, m, prefix, threshhold) ==
    LET suffix == RandomSuffixOf(ms, hp, m, prefix, threshhold)
    IN  IF suffix.outcome # "ok" THEN suffix
        ELSE IF suffix.ret = None THEN Return(None)
        ELSE Return(Tuple(Append(prefix, suffix.ret)))

(* Markov.random_ngram, lines 121-122                                      *)
RandomNgramOf(ms, hp, m, prefix, threshhold) ==
    LET suffix == RandomSuffixOf(ms, hp, m, prefix, threshhold)
    IN  IF suffix.outcome # "ok" THEN suffix
        ELSE Return(Tuple(Append(prefix, suffix.ret)))

-----------------------------------------------------------------------------
(* Calls.  last is the most recent call: its operation, receiver, argument *)
(* list, other model (update), drawn threshold, outcome ("ok", the         *)
(* exception raised, or "running") and returned value.  run says that the  *)
(* last run.len calls (at most two are tracked) were the same successful   *)
(* add_ngram or update call, and holds the store as it was before them.    *)

Call(op, m, args, other, t, res) ==
    [op |-> op, m |-> m, args |-> args, other |-> other, t |-> t,
     outcome |-> res.outcome, ret |-> res.ret]

NoCall == Call("none", "", <<>>, "", FloatZero, Return(None))

NoWalk == [active |-> FALSE, m |-> "", queue |-> <<>>, seq |-> <<>>]

NoRun == [models |-> <<>>, heap |-> <<>>, len |-> 0]

SameCall(c, d) ==
    c.op = d.op /\ c.m = d.m /\ c.args = d.args /\ c.other = d.other

RunAfter(call) ==
    IF call.outcome # "ok" \/ call.op \notin {"add_ngram", "update"} THEN NoRun
    ELSE IF run.len = 1 /\ last.outcome = "ok" /\ SameCall(last, call)
    THEN [run EXCEPT !.len = @ + 1]
    ELSE [models |-> models, heap |-> heap, len |-> 1]

Record(call) == last' = call /\ run' = RunAfter(call)

\* arguments tried for Markov(n): type(n) and value
ConstructArgs ==
    {[type |-> "int", v |-> 1], [type |-> "int", v |-> 2], [type |-> "int", v |-> 3],
     [type |-> "float", v |-> 2]}

Init ==
    /\ models = [m \in ModelIds |-> NoModel]
    /\ heap = EmptyHeap
    /\ last = NoCall
    /\ walk = NoWalk
    /\ run = NoRun

\* variant: the order is only required to be positive
ConstructPositive(m, arg) ==
    /\ ~walk.active
    /\ ~Constructed(m)
    /\ IF arg.type # "int"
       THEN /\ Record(Call("construct", m, <<arg>>, "", FloatZero, Raise("TypeError")))
            /\ UNCHANGED models
       ELSE IF arg.v < 1
       THEN /\ Record(Call("construct", m, <<arg>>, "", FloatZero, Raise("ValueError")))
            /\ UNCHANGED models
       ELSE /\ Record(Call("construct", m, <<arg>>, "", FloatZero, Return(None)))
            /\ models' = [models EXCEPT ![m] = [n |-> arg.v, graph |-> <<>>]]
    /\ UNCHANGED <<heap, walk>>

(* Markov.__init__, lines 10-15                                            *)
Construct(m, arg) ==
    /\ ~walk.active
    /\ ~Constructed(m)
    /\ IF arg.type # "int"
       THEN /\ Record(Call("construct", m, <<arg>>, "", FloatZero, Raise("TypeError")))
            /\ UNCHANGED models
       ELSE IF arg.v < 2
       THEN /\ Record(Call("construct", m, <<arg>>, "", FloatZero, Raise("ValueError")))
            /\ UNCHANGED models
       ELSE /\ Record(Call("construct", m, <<arg>>, "", FloatZero, Return(None)))
            /\ models' = [models EXCEPT ![m] = [n |-> arg.v, graph |-> <<>>]]
    /\ UNCHANGED <<heap, walk>>

\* variant: the n-gram is recorded before its length is checked
AddNgramLate(m, ngram) ==
    /\ ~walk.active
    /\ Constructed(m)
    /\ IF Len(ngram) < 2 \/ ~CanJoin(SubSeq(ngram, 1, Len(ngram) - 1))
       THEN /\ Record(Call("add_ngram", m, ngram, "", FloatZero, Raise("TypeError")))
            /\ UNCHANGED <<models, heap>>
       ELSE LET st == AddNgramStore(models, heap, m, ngram)
            IN  /\ Record(Call("add_ngram", m, ngram, "", FloatZero,
                               IF Len(ngram) # models[m].n
                               THEN Raise("ValueError") ELSE Return(None)))
                /\ models' = st.models
                /\ heap' = st.heap
    /\ UNCHANGED walk

(* Markov.add_ngram, lines 26-52                                           *)
AddNgram(m, ngram) ==
    /\ ~walk.active
    /\ Constructed(m)
    /\ IF Len(ngram) # models[m].n
       THEN /\ Record(Call("add_ngram", m, ngram, "", FloatZero, Raise("ValueError")))
            /\ UNCHANGED <<models, heap>>
       ELSE IF ~CanJoin(SubSeq(ngram, 1, Len(ngram) - 1))
       THEN /\ Record(Call("add_ngram", m, ngram, "", FloatZero, Raise("TypeError")))
            /\ UNCHANGED <<models, heap>>
       ELSE LET st == AddNgramStore(models, heap, m, ngram)
            IN  /\ Record(Call("add_ngram", m, ngram, "", FloatZero, Return(None)))
                /\ models' = st.models
                /\ heap' = st.heap
    /\ UNCHANGED walk

(* Markov.update, lines 99-110                                             *)
Update(m, other) ==
    /\ ~walk.active
    /\ Constructed(m)
    /\ Constructed(other)
    /\ IF models[m].n # models[other].n
       THEN /\ Record(Call("update", m, <<>>, other, FloatZero, Raise("ValueError")))
            /\ UNCHANGED <<models, heap>>
       ELSE LET st == UpdateStore(models, heap, m, other, 1)
            IN  /\ Record(Call("update", m, <<>>, other, FloatZero, Return(None)))
                /\ models' = st.models
                /\ heap' = st.heap
    /\ UNCHANGED walk

\* variant: the graph is a defaultdict, a looked up prefix key is inserted
GetSuffixesDefault(m, prefix) ==
    /\ ~walk.active
    /\ Constructed(m)
    /\ Record(Call("get_suffixes", m, prefix, "", FloatZero,
                   GetSuffixesOf(models, heap, m, prefix)))
    /\ IF Len(prefix) = models[m].n - 1 /\ CanJoin(prefix)
          /\ ~Has(models[m].graph, Join(prefix))
       THEN /\ models' = [models EXCEPT ![m].graph =
                             Put(@, Join(prefix), Ref(m, Join(prefix)))]
            /\ heap' = (Ref(m, Join(prefix)) :> <<>>) @@ heap
       ELSE UNCHANGED <<models, heap>>
    /\ UNCHANGED walk

(* Markov.get_suffixes                                                     *)
GetSuffixes(m, prefix) ==
    /\ ~walk.active
    /\ Constructed(m)
    /\ Record(Call("get_suffixes", m, prefix, "", FloatZero,
                   GetSuffixesOf(models, heap, m, prefix)))
    /\ UNCHANGED <<models, heap, walk>>

(* Markov.get_ngrams                                                       *)
GetNgrams(m, prefix) ==
    /\ ~walk.active
    /\ Constructed(m)
    /\ Record(Call("get_ngrams", m, prefix, "", FloatZero,
                   GetNgramsOf(models, heap, m, prefix)))
    /\ UNCHANGED <<models, heap, walk>>

(* Markov.random_suffix with random.random() returning threshhold          *)
RandomSuffix(m, prefix, threshhold) ==
    /\ ~walk.active
    /\ Constructed(m)
    /\ Record(Call("random_suffix", m, prefix, "", threshhold,
                   RandomSuffixOf(models, heap, m, prefix, threshhold)))
    /\ UNCHANGED <<models, heap, walk>>

(* Markov.random_ngram with random.random() returning threshhold           *)
RandomNgram(m, prefix, threshhold) ==
    /\ ~walk.active
    /\ Constructed(m)
    /\ Record(Call("random_ngram", m, prefix, "", threshhold,
                   RandomNgramOf(models, heap, m, prefix, threshhold)))
    /\ UNCHANGED <<models, heap, walk>>

(* Markov.random_sequence, lines 128-133: entry up to the loop             *)
RandomSequence(m, prefix) ==
    /\ ~walk.active
    /\ Constructed(m)
    /\ IF Len(prefix) # models[m].n - 1
       THEN /\ Record(Call("random_sequence", m, prefix, "", FloatZero,
                           Raise("ValueError")))
            /\ UNCHANGED walk
       ELSE /\ Record(Call("random_sequence", m, prefix, "", FloatZero,
                           [outcome |-> "running", ret |-> None]))
            /\ walk' = [active |-> TRUE, m |-> m, queue |-> prefix, seq |-> prefix]
    /\ UNCHANGED <<models, heap>>

\* variant: the deque has no maxlen, the window is never shortened
RandomSequenceStepNoSlide(threshhold) ==
    /\ walk.active
    /\ Len(walk.seq) < MaxSeqLen
    /\ LET suffix == RandomSuffixOf(models, heap, walk.m, walk.queue, threshhold)
       IN  IF suffix.outcome # "ok"
           THEN /\ last' = [last EXCEPT !.t = threshhold, !.outcome = suffix.outcome,
                                        !.ret = List(walk.seq)]
                /\ walk' = NoWalk
           ELSE IF suffix.ret = Terminal
           THEN /\ last' = [last EXCEPT !.t = threshhold, !.outcome = "ok",
                                        !.ret = List(Append(walk.seq, suffix.ret))]
                /\ walk' = NoWalk
           ELSE /\ last' = [last EXCEPT !.t = threshhold]
                /\ walk' = [walk EXCEPT !.seq = Append(@, suffix.ret),
                                        !.queue = Append(@, suffix.ret)]
    /\ UNCHANGED <<models, heap, run>>

\* variant: the loop also ends when no suffix was sampled
RandomSequenceStepStop(threshhold) ==
    /\ walk.active
    /\ Len(walk.seq) < MaxSeqLen
    /\ LET suffix == RandomSuffixOf(models, heap, walk.m, walk.queue, threshhold)
       IN  IF suffix.outcome # "ok"
           THEN /\ last' = [last EXCEPT !.t = threshhold, !.outcome = suffix.outcome,
                                        !.ret = List(walk.seq)]
                /\ walk' = NoWalk
           ELSE IF suffix.ret = Terminal \/ suffix.ret = None
           THEN /\ last' = [last EXCEPT !.t = threshhold, !.outcome = "ok",
                                        !.ret = List(Append(walk.seq, suffix.ret))]
                /\ walk' = NoWalk
           ELSE /\ last' = [last EXCEPT !.t = threshhold]
                /\ walk' = [walk EXCEPT !.seq = Append(@, suffix.ret),
                                        !.queue = Append(Tail(@), suffix.ret)]
    /\ UNCHANGED <<models, heap, run>>

(* Markov.random_sequence, lines 135-140: one iteration of the loop with   *)
(* random.random() returning threshhold.  When the call raises, last.ret   *)
(* keeps the value the local list sequence had.                            *)
RandomSequenceStep(threshhold) ==
    /\ walk.active
    /\ Len(walk.seq) < MaxSeqLen
    /\ LET suffix == RandomSuffixOf(models, heap, walk.m, walk.queue, threshhold)
       IN  IF suffix.outcome # "ok"
           THEN /\ last' = [last EXCEPT !.t = threshhold, !.outcome = suffix.outcome,
                                        !.ret = List(walk.seq)]
                /\ walk' = NoWalk
           ELSE IF suffix.ret = Terminal
           THEN /\ last' = [last EXCEPT !.t = threshhold, !.outcome = "ok",
                                        !.ret = List(Append(walk.seq, suffix.ret))]
                /\ walk' = NoWalk
           ELSE /\ last' = [last EXCEPT !.t = threshhold]
                /\ walk' = [walk EXCEPT !.seq = Append(@, suffix.ret),
                                        !.queue = Append(Tail(@), suffix.ret)]
    /\ UNCHANGED <<models, heap, run>>

-----------------------------------------------------------------------------
(* Argument lists tried by the callers                                     *)

\* lists of str tokens, and lists that start with None
NgramArgs ==
    SeqsUpTo(Words, MaxArgs)
        \cup {<<None>> \o w : w \in SeqsUpTo(Words, MaxArgs - 1) \ {<<>>}}

PrefixArgs ==
    SeqsUpTo(Words, MaxPrefix) \cup {<<None>> \o w : w \in SeqsUpTo(Words, MaxPrefix - 1)}

\* n-grams and prefixes a caller that respects the contract passes to m
WordNgrams(m) == [1..models[m].n -> Words]

WordPrefixes(m) == [1..(models[m].n - 1) -> Words]

-----------------------------------------------------------------------------
(* Lifecycle: models are constructed, trained with well-formed n-grams,    *)
(* merged and sampled                                                      *)

Next ==
    \/ \E m \in ModelIds, arg \in ConstructArgs : Construct(m, arg)
    \/ \E m \in ModelIds : \E ngram \in WordNgrams(m) :
          AddNgram(m, ngram) /\ AllCount(heap') <= MaxTotal
    \/ \E m \in ModelIds, other \in ModelIds :
          Update(m, other) /\ AllCount(heap') <= MaxTotal
    \/ \E m \in ModelIds : \E prefix \in WordPrefixes(m) : \E t \in Thresholds :
          RandomSuffix(m, prefix, t)

Spec == Init /\ [][Next]_vars

(* Lifecycle with arbitrary argument lists, so that calls fail             *)

NextErr ==
    \/ \E m \in ModelIds, arg \in ConstructArgs : Construct(m, arg)
    \/ \E m \in ModelIds, ngram \in NgramArgs :
          AddNgram(m, ngram) /\ AllCount(heap') <= MaxErrTotal
    \/ \E m \in ModelIds, other \in ModelIds :
          Update(m, other) /\ AllCount(heap') <= MaxErrTotal
    \/ \E m \in ModelIds, prefix \in PrefixArgs : GetSuffixes(m, prefix)
    \/ \E m \in ModelIds, prefix \in PrefixArgs : GetNgrams(m, prefix)

SpecErr == Init /\ [][NextErr]_vars

-----------------------------------------------------------------------------
(* Trained models                                                          *)

\* add_ngram applied to each n-gram of a corpus in turn
RECURSIVE Ingest(_, _, _, _)
Ingest(ms, hp, m, corpus) ==
    IF corpus = <<>> THEN [models |-> ms, heap |-> hp]
    ELSE LET st == AddNgramStore(ms, hp, m, Head(corpus))
         IN  Ingest(st.models, st.heap, m, Tail(corpus))

RECURSIVE Repeat(_, _)
Repeat(x, k) == IF k = 0 THEN <<>> ELSE <<x>> \o Repeat(x, k - 1)

\* the corpus in which the i-th suffix follows prefix counts[i] times
RECURSIVE CorpusOf(_, _, _)
CorpusOf(prefix, counts, i) ==
    IF i > Len(counts) THEN <<>>
    ELSE Repeat(Append(prefix, TrainSuffixes[i]), counts[i])
             \o CorpusOf(prefix, counts, i + 1)

RECURSIVE SumSeq(_)
SumSeq(q) == IF q = <<>> THEN 0 ELSE Head(q) + SumSeq(Tail(q))

CountVectors ==
    {c \in SeqsUpTo(1..MaxTrain, MaxSuffixes) : SumSeq(c) <= MaxTrain}

Fresh(n) == [n |-> n, graph |-> <<>>]

(* Sampling: model A of order 2 or 3 has ingested a corpus over one prefix *)
(* and is read                                                             *)

InitSample ==
    \E n \in {2, 3}, counts \in CountVectors :
        LET st == Ingest([m \in ModelIds |-> IF m = "A" THEN Fresh(n) ELSE NoModel],
                         EmptyHeap, "A",
                         CorpusOf([i \in 1..(n - 1) |-> Str("a")], counts, 1))
        IN  /\ models = st.models
            /\ heap = st.heap
            /\ last = NoCall
            /\ walk = NoWalk
            /\ run = NoRun

NextSample ==
    \/ \E m \in ModelIds, prefix \in PrefixArgs : GetSuffixes(m, prefix)
    \/ \E m \in ModelIds, prefix \in PrefixArgs : GetNgrams(m, prefix)
    \/ \E m \in ModelIds, prefix \in PrefixArgs, t \in Thresholds :
          RandomSuffix(m, prefix, t)
    \/ \E m \in ModelIds, prefix \in PrefixArgs, t \in Thresholds :
          RandomNgram(m, prefix, t)
    \/ \E m \in ModelIds, prefix \in PrefixArgs : RandomSequence(m, prefix)
    \/ \E t \in Thresholds : RandomSequenceStep(t)

SpecSample == InitSample /\ [][NextSample]_vars

(* Merging: models A and B of the same order have each ingested a corpus   *)
(* of at most MaxCorpus n-grams and are merged into one another            *)

InitMerge ==
    \E n \in {2, 3} :
        \E corpusA \in SeqsUpTo([1..n -> Words], MaxCorpus),
           corpusB \in SeqsUpTo([1..n -> Words], MaxCorpus) :
            LET stA == Ingest([m \in ModelIds |-> Fresh(n)], EmptyHeap, "A", corpusA)
                st  == Ingest(stA.models, stA.heap, "B", corpusB)
            IN  /\ models = st.models
                /\ heap = st.heap
                /\ last = NoCall
                /\ walk = NoWalk
                /\ run = NoRun

NextMerge ==
    \E m \in ModelIds, other \in ModelIds :
        Update(m, other) /\ AllCount(heap') <= MaxMerged

SpecMerge == InitMerge /\ [][NextMerge]_vars

(* Sharing: model B has ingested a corpus of at most MaxCorpus n-grams over *)
(* ShareWords, model A of the same order is new; both are then trained     *)
(* with n-grams over Words and merged into one another                     *)

ShareWords == {Str("a"), Str("b")}

InitShare ==
    \E n \in {2, 3} :
        \E corpusB \in SeqsUpTo([1..n -> ShareWords], MaxCorpus) :
            LET st == Ingest([m \in ModelIds |-> Fresh(n)], EmptyHeap, "B", corpusB)
            IN  /\ models = st.models
                /\ heap = st.heap
                /\ last = NoCall
                /\ walk = NoWalk
                /\ run = NoRun

NextShare ==
    \/ \E m \in ModelIds : \E ngram \in WordNgrams(m) :
          AddNgram(m, ngram) /\ AllCount(heap') <= MaxShared
    \/ \E m \in ModelIds, other \in ModelIds :
          Update(m, other) /\ AllCount(heap') <= MaxShared

SpecShare == InitShare /\ [][NextShare]_vars

(* Ordering: model B of order 2 has ingested a corpus of at most MaxCorpus  *)
(* n-grams over ShareWords, model A of order 2 is new; both are then       *)
(* trained with n-grams over Words, merged into one another and sampled    *)

InitOrder ==
    \E corpusB \in SeqsUpTo([1..2 -> ShareWords], MaxCorpus) :
        LET st == Ingest([m \in ModelIds |-> Fresh(2)], EmptyHeap, "B", corpusB)
        IN  /\ models = st.models
            /\ heap = st.heap
            /\ last = NoCall
            /\ walk = NoWalk
            /\ run = NoRun

NextOrder ==
    \/ \E m \in ModelIds : \E ngram \in WordNgrams(m) :
          AddNgram(m, ngram) /\ AllCount(heap') <= MaxOrdered
    \/ \E m \in ModelIds, other \in ModelIds :
          Update(m, other) /\ AllCount(heap') <= MaxOrdered
    \/ \E m \in ModelIds : \E prefix \in WordPrefixes(m) : \E t \in Thresholds :
          RandomSuffix(m, prefix, t)

SpecOrder == InitOrder /\ [][NextOrder]_vars

(* Replaying: three models of order 2 have each ingested a corpus over     *)
(* Words, B of at most MaxCorpus n-grams, A and C of at most one, and are  *)
(* merged into one another, never into themselves                          *)

ReplayIds == ModelIds \cup {"C"}

InitReplay ==
    \E corpusA \in SeqsUpTo([1..2 -> Words], 1),
       corpusB \in SeqsUpTo([1..2 -> Words], MaxCorpus),
       corpusC \in SeqsUpTo([1..2 -> Words], 1) :
        LET stA == Ingest([m \in ReplayIds |-> Fresh(2)], EmptyHeap, "A", corpusA)
            stB == Ingest(stA.models, stA.heap, "B", corpusB)
            st  == Ingest(stB.models, stB.heap, "C", corpusC)
        IN  /\ models = st.models
            /\ heap = st.heap
            /\ last = NoCall
            /\ walk = NoWalk
            /\ run = NoRun

NextReplay ==
    \E m \in ReplayIds : \E other \in ReplayIds \ {m} :
        Update(m, other) /\ AllCount(heap') <= MaxReplayed

SpecReplay == InitReplay /\ [][NextReplay]_vars

-----------------------------------------------------------------------------
(* Vocabulary of the properties                                            *)

\* the count recorded in model m for prefix key p and suffix s, 0 if none
CountOf(ms, hp, m, p, s) ==
    LET g  == ms[m].graph
        is == {i \in 1..Len(g) : g[i].k = p}
    IN  IF is = {} THEN 0
        ELSE LET d  == hp[g[CHOOSE i \in is : TRUE].v]
                 js == {j \in 1..Len(d) : d[j].k = s}
             IN  IF js = {} THEN 0 ELSE d[CHOOSE j \in js : TRUE].v

PrefixKeysOf(ms) == UNION {KeySet(ms[m].graph) : m \in ModelIds}

SuffixesOf(hp) == UNION {KeySet(hp[r]) : r \in DOMAIN hp}

\* the prefix keys and suffixes recorded before or after a step
StepKeys == PrefixKeysOf(models) \cup PrefixKeysOf(models')

StepSuffixes == SuffixesOf(heap) \cup SuffixesOf(heap')

Failed(call) == call.outcome \in {"ValueError", "TypeError"}

\* the suffixes recorded in model m for prefix key p
RecordedSuffixes(ms, hp, m, p) ==
    {s \in SuffixesOf(hp) : CountOf(ms, hp, m, p, s) >= 1}

\* the sum of the counts of the suffixes S of prefix key p
RECURSIVE TotalOver(_, _, _, _, _)
TotalOver(ms, hp, m, p, S) ==
    IF S = {} THEN 0
    ELSE LET s == CHOOSE x \in S : TRUE
         IN  CountOf(ms, hp, m, p, s) + TotalOver(ms, hp, m, p, S \ {s})

\* the suffixes of prefix key p of model m in the order the dict holds them
KeysIn(ms, hp, m, p) ==
    IF ~Has(ms[m].graph, p) THEN <<>>
    ELSE LET d == hp[Get(ms[m].graph, p)] IN [i \in 1..Len(d) |-> d[i].k]

\* the sum of the first i values of a mapping, added one by one as doubles
RECURSIVE FloatSum(_, _)
FloatSum(mapping, i) ==
    IF i = 0 THEN FloatZero ELSE FloatAdd(FloatSum(mapping, i - 1), mapping[i].v)

\* the sum of the first i values of a mapping, without rounding
RECURSIVE ExactSum(_, _)
ExactSum(mapping, i) ==
    IF i = 0 THEN FloatZero
    ELSE AddLimbs(ExactSum(mapping, i - 1), mapping[i].v, NLimbs, 0)

\* the string that the tokens of a prefix spell when written one after the
\* other without separator
RECURSIVE Spelling(_)
Spelling(toks) == IF toks = <<>> THEN "" ELSE Head(toks).v \o Spelling(Tail(toks))

\* model m1 of one store and model m2 of another hold the same counts
SameCounts(ms1, hp1, m1, ms2, hp2, m2) ==
    \A p \in KeySet(ms1[m1].graph) \cup KeySet(ms2[m2].graph) :
        \A s \in SuffixesOf(hp1) \cup SuffixesOf(hp2) :
            CountOf(ms1, hp1, m1, p, s) = CountOf(ms2, hp2, m2, p, s)

\* the sum of the counts that model m holds
TotalCount(ms, hp, m) ==
    LET g == ms[m].graph
    IN  SumSeq([i \in 1..Len(g) |-> SumValues(hp[g[i].v])])

\* the read operations
Reads == {"get_suffixes", "get_ngrams", "random_suffix", "random_ngram",
          "random_sequence"}

-----------------------------------------------------------------------------
(* C1: a successful add_ngram raises the count of (concatenation of the    *)
(* first n-1 tokens, last token) by exactly 1, from 0 if it was not        *)
(* recorded, and changes no other count of any model and no order.         *)
C1_AddNgramAddsOne ==
    [][(last'.op = "add_ngram" /\ last'.outcome = "ok") =>
         LET m    == last'.m
             key  == Join(SubSeq(last'.args, 1, Len(last'.args) - 1))
             dest == last'.args[Len(last'.args)]
         IN  /\ Len(last'.args) = models[m].n
             /\ CountOf(models', heap', m, key, dest)
                    = CountOf(models, heap, m, key, dest) + 1
             /\ \A x \in ModelIds, p \in StepKeys, s \in StepSuffixes :
                    (x # m \/ p # key \/ s # dest) =>
                        CountOf(models', heap', x, p, s) = CountOf(models, heap, x, p, s)
             /\ \A x \in ModelIds : models'[x].n = models[x].n]_vars

\* an add_ngram raised a count from 1 to 2 beside another suffix of the key
C1_Witness ==
    /\ last.op = "add_ngram"
    /\ last.outcome = "ok"
    /\ LET key  == Join(SubSeq(last.args, 1, Len(last.args) - 1))
           dest == last.args[Len(last.args)]
       IN  /\ CountOf(models, heap, last.m, key, dest) = 2
           /\ \E s \in SuffixesOf(heap) :
                  s # dest /\ CountOf(models, heap, last.m, key, s) >= 1

(* C2: after a successful A.update(B) every (prefix key, suffix) count of  *)
(* A is its count before plus B's count before, absent counting as 0, so   *)
(* A records nothing that neither model recorded.                          *)
C2_UpdateAddsCounts ==
    [][(last'.op = "update" /\ last'.outcome = "ok") =>
         /\ models[last'.m].n = models[last'.other].n
         /\ \A p \in StepKeys, s \in StepSuffixes :
                CountOf(models', heap', last'.m, p, s)
                    = CountOf(models, heap, last'.m, p, s)
                        + CountOf(models, heap, last'.other, p, s)]_vars

\* an update between two models added a count to one the receiver already
\* had and brought a pair the receiver did not have
C2_Witness ==
    /\ last.op = "update"
    /\ last.outcome = "ok"
    /\ last.m # last.other
    /\ \E p \in PrefixKeysOf(models), s \in SuffixesOf(heap) :
           /\ CountOf(models, heap, last.other, p, s) >= 1
           /\ CountOf(models, heap, last.m, p, s) > CountOf(models, heap, last.other, p, s)
    /\ \E p \in PrefixKeysOf(models), s \in SuffixesOf(heap) :
           /\ CountOf(models, heap, last.other, p, s) >= 1
           /\ CountOf(models, heap, last.m, p, s) = CountOf(models, heap, last.other, p, s)

(* C3: a call that must fail does fail (add_ngram with a token count other *)
(* than the order, get_suffixes and get_ngrams with a prefix length other  *)
(* than order-1 or with a token that is not a str, update with a model of  *)
(* another order), and no failing call changes the graph or the order of   *)
(* any model.                                                              *)
C3_MustFail ==
    /\ last.op = "add_ngram" /\ Len(last.args) # models[last.m].n => Failed(last)
    /\ (/\ last.op \in {"get_suffixes", "get_ngrams"}
        /\ \/ Len(last.args) # models[last.m].n - 1
           \/ \E i \in 1..Len(last.args) : last.args[i].type # "str")
           => Failed(last)
    /\ last.op = "update" /\ models[last.m].n # models[last.other].n => Failed(last)

C3_FailedCallsChangeNothing ==
    /\ []C3_MustFail
    /\ [][Failed(last') => models' = models /\ heap' = heap]_vars

\* an update between trained models of different orders failed
C3_Witness ==
    /\ last.op = "update"
    /\ last.outcome = "ValueError"
    /\ models[last.m].graph # <<>>
    /\ models[last.other].graph # <<>>

(* C8: two successive A.update(B) of distinct models leave A with, for     *)
(* every (prefix key, suffix), its original count plus twice B's count,    *)
(* which differs from the result of one update whenever B records          *)
(* anything; two successive A.update(A) leave A with four times its        *)
(* original counts.                                                        *)
C8_UpdateTwiceDoubles ==
    (last.op = "update" /\ run.len = 2) =>
        IF last.m # last.other
        THEN /\ \A p \in PrefixKeysOf(models), s \in SuffixesOf(heap) :
                    CountOf(models, heap, last.m, p, s)
                        = CountOf(run.models, run.heap, last.m, p, s)
                            + 2 * CountOf(run.models, run.heap, last.other, p, s)
             /\ run.models[last.other].graph # <<>> =>
                    \E p \in PrefixKeysOf(models), s \in SuffixesOf(heap) :
                        CountOf(models, heap, last.m, p, s)
                            # CountOf(run.models, run.heap, last.m, p, s)
                                + CountOf(run.models, run.heap, last.other, p, s)
        ELSE \A p \in PrefixKeysOf(models), s \in SuffixesOf(heap) :
                 CountOf(models, heap, last.m, p, s)
                     = 4 * CountOf(run.models, run.heap, last.m, p, s)

(* C8 as stated: for any two models A and B of the same order, B being A   *)
(* itself included, two successive A.update(B) leave A with its original   *)
(* count plus twice B's original count for every (prefix key, suffix).     *)
C8_AnyTwoModels ==
    (last.op = "update" /\ run.len = 2) =>
        \A p \in PrefixKeysOf(models), s \in SuffixesOf(heap) :
            CountOf(models, heap, last.m, p, s)
                = CountOf(run.models, run.heap, last.m, p, s)
                    + 2 * CountOf(run.models, run.heap, last.other, p, s)

\* A.update(B) ran twice on a pair that both models recorded beforehand
C8_Witness ==
    /\ last.op = "update"
    /\ last.m # last.other
    /\ run.len = 2
    /\ \E p \in PrefixKeysOf(models), s \in SuffixesOf(heap) :
           /\ CountOf(run.models, run.heap, last.m, p, s) >= 1
           /\ CountOf(run.models, run.heap, last.other, p, s) >= 1

(* C4: a successful get_suffixes(prefix) returns the empty mapping when the *)
(* prefix key is unrecorded; otherwise its keys are exactly the suffixes   *)
(* recorded for the prefix key, each once, and the value of suffix s is    *)
(* the double nearest count(s) / total, total being the sum of the counts  *)
(* recorded for the prefix key; every value lies in (0, 1].                *)
C4_Ratios ==
    LET m        == last.m
        key      == Join(last.args)
        ret      == last.ret.v
        recorded == RecordedSuffixes(models, heap, m, key)
        total    == TotalOver(models, heap, m, key, recorded)
    IN  /\ Len(last.args) = models[m].n - 1
        /\ last.ret.type = "dict"
        /\ ~Has(models[m].graph, key) => ret = <<>>
        /\ KeySet(ret) = recorded
        /\ Cardinality(recorded) = Len(ret)
        /\ \A i \in 1..Len(ret) :
               /\ ret[i].v = FloatDiv(CountOf(models, heap, m, key, ret[i].k), total)
               /\ ret[i].v # FloatZero
               /\ FloatGeq(FloatOne, ret[i].v)

C4_GetSuffixesRatios ==
    (last.op = "get_suffixes" /\ last.outcome = "ok") => C4_Ratios

\* get_suffixes returned two suffixes with different probabilities
C4_Witness ==
    /\ last.op = "get_suffixes"
    /\ last.outcome = "ok"
    /\ \E i, j \in 1..Len(last.ret.v) : last.ret.v[i].v # last.ret.v[j].v

(* C4 as stated: in addition, the values of a non-empty returned mapping   *)
(* sum to 1, be it added one by one as doubles or without any rounding.    *)
C4_ValuesSumToOne ==
    (last.op = "get_suffixes" /\ last.outcome = "ok") =>
        /\ C4_Ratios
        /\ last.ret.v # <<>> =>
               \/ FloatSum(last.ret.v, Len(last.ret.v)) = FloatOne
               \/ ExactSum(last.ret.v, Len(last.ret.v)) = FloatOne

(* C5: random_sequence(prefix) returns only a list that starts with the    *)
(* prefix, ends with the terminal token '' and holds no terminal token     *)
(* among the generated elements before the last; an iteration whose window *)
(* is not a recorded prefix key does not make the call return.             *)
C5_Returned ==
    (last.op = "random_sequence" /\ last.outcome = "ok") =>
        LET seq == last.ret.v
            k   == Len(last.args)
        IN  /\ last.ret.type = "list"
            /\ Len(seq) > k
            /\ SubSeq(seq, 1, k) = last.args
            /\ seq[Len(seq)] = Terminal
            /\ \A i \in (k + 1)..(Len(seq) - 1) : seq[i] # Terminal

C5_ReturnsOnlyOnTerminal ==
    /\ []C5_Returned
    /\ [][(walk.active /\ last'.op = "random_sequence" /\ last'.outcome = "ok") =>
            /\ CanJoin(walk.queue)
            /\ Has(models[walk.m].graph, Join(walk.queue))
            /\ Terminal \in RecordedSuffixes(models, heap, walk.m, Join(walk.queue))]_vars

\* a walk returned after generating a token and then the terminal token
C5_Witness ==
    /\ last.op = "random_sequence"
    /\ last.outcome = "ok"
    /\ Len(last.ret.v) >= Len(last.args) + 2

(* C6: random_suffix(prefix), whatever threshold in [0, 1) is drawn,       *)
(* returns a suffix recorded for the prefix key, or None when none is      *)
(* recorded.                                                               *)
C6_SuffixAmongKeys ==
    (last.op = "random_suffix" /\ last.outcome = "ok") =>
        LET recorded == RecordedSuffixes(models, heap, last.m, Join(last.args))
        IN  IF recorded = {} THEN last.ret = None ELSE last.ret \in recorded

(* C7: random_suffix(prefix) with drawn threshold t returns the first      *)
(* suffix, in the order in which the suffixes were first recorded for the  *)
(* prefix key, whose cumulative probability is >= t (None when there is    *)
(* none); no step changes the order of the suffixes already recorded for a *)
(* prefix key, new suffixes go last.                                       *)
C7_FirstReaching ==
    (last.op = "random_suffix" /\ last.outcome = "ok") =>
        LET m        == last.m
            key      == Join(last.args)
            order    == KeysIn(models, heap, m, key)
            total    == TotalOver(models, heap, m, key,
                                  RecordedSuffixes(models, heap, m, key))
            mapping  == [i \in 1..Len(order) |->
                           [k |-> order[i],
                            v |-> FloatDiv(CountOf(models, heap, m, key, order[i]), total)]]
            reaching == {i \in 1..Len(order) : FloatGeq(FloatSum(mapping, i), last.t)}
        IN  IF reaching = {} THEN last.ret = None
            ELSE last.ret = order[CHOOSE i \in reaching : \A j \in reaching : i <= j]

C7_SamplesInRecordingOrder ==
    /\ []C7_FirstReaching
    /\ [][\A m \in ModelIds : \A p \in KeySet(models[m].graph) :
            LET old == KeysIn(models, heap, m, p)
                new == KeysIn(models', heap', m, p)
            IN  Len(old) <= Len(new) /\ SubSeq(new, 1, Len(old)) = old]_vars

\* model A holds the suffixes "a", "b" in this order under a prefix key:
\* it recorded "a" itself, an update from B brought "b", which no add_ngram
\* of this lifecycle brings, and a second update from B raised the count of
\* "b" to 2 while B still holds 1; random_suffix on A then passed over "a"
\* and returned "b"
C7_Witness ==
    /\ last.op = "random_suffix"
    /\ last.outcome = "ok"
    /\ last.m = "A"
    /\ last.ret = Str("b")
    /\ KeysIn(models, heap, "A", Join(last.args)) = <<Str("a"), Str("b")>>
    /\ CountOf(models, heap, "A", Join(last.args), Str("b")) = 2
    /\ CountOf(models, heap, "B", Join(last.args), Str("b")) = 1

(* C9: a successful random_ngram(prefix) returns a tuple of order elements:*)
(* the prefix followed by what random_suffix yields for the same draw, a   *)
(* sampled suffix or, in last position, None when no suffix was sampled.   *)
C9_PrefixThenSuffix ==
    (last.op = "random_ngram" /\ last.outcome = "ok") =>
        LET suffix == RandomSuffixOf(models, heap, last.m, last.args, last.t)
        IN  /\ last.ret.type = "tuple"
            /\ Len(last.ret.v) = models[last.m].n
            /\ SubSeq(last.ret.v, 1, Len(last.args)) = last.args
            /\ last.ret.v[Len(last.ret.v)] = suffix.ret
            /\ last.ret.v[Len(last.ret.v)]
                   \in RecordedSuffixes(models, heap, last.m, Join(last.args))
                           \cup {None}
            /\ RecordedSuffixes(models, heap, last.m, Join(last.args)) = {}
                   => last.ret.v[Len(last.ret.v)] = None

\* random_ngram on an unrecorded prefix key of a trained model
C9_Witness ==
    /\ last.op = "random_ngram"
    /\ last.outcome = "ok"
    /\ models[last.m].graph # <<>>
    /\ ~Has(models[last.m].graph, Join(last.args))
    /\ last.ret.v[Len(last.ret.v)] = None

(* C9 as stated: random_ngram returns the prefix followed by the sampled   *)
(* suffix, and returns None itself when the prefix key has no recorded     *)
(* suffixes.                                                               *)
C9_AbsencePropagated ==
    (last.op = "random_ngram" /\ last.outcome = "ok") =>
        IF RecordedSuffixes(models, heap, last.m, Join(last.args)) = {}
        THEN last.ret = None
        ELSE /\ last.ret.type = "tuple"
             /\ SubSeq(last.ret.v, 1, Len(last.args)) = last.args

(* C10: no call of get_suffixes, get_ngrams, random_suffix, random_ngram   *)
(* or random_sequence, returning or failing, and no iteration of the walk, *)
(* changes the graph or the order of any model.                            *)
C10_ReadsChangeNothing ==
    [][last'.op \in Reads => models' = models /\ heap' = heap]_vars

\* get_suffixes looked up an unrecorded prefix key of a trained model
C10_Witness ==
    /\ last.op = "get_suffixes"
    /\ last.outcome = "ok"
    /\ last.ret.v = <<>>
    /\ models[last.m].graph # <<>>

(* C11: counts only grow: no step of construct, add_ngram, update or a     *)
(* read removes a recorded (prefix key, suffix) entry of any model or      *)
(* lowers its count.                                                       *)
C11_CountsOnlyGrow ==
    [][\A m \in ModelIds, p \in StepKeys, s \in StepSuffixes :
          CountOf(models', heap', m, p, s) >= CountOf(models, heap, m, p, s)]_vars

\* an update into a model that already held a count for a pair of the model
\* merged into it
C11_Witness ==
    /\ last.op = "update"
    /\ last.outcome = "ok"
    /\ last.m # last.other
    /\ \E p \in PrefixKeysOf(models), s \in SuffixesOf(heap) :
           /\ CountOf(models, heap, last.other, p, s) >= 1
           /\ CountOf(models, heap, last.m, p, s)
                  >= 2 * CountOf(models, heap, last.other, p, s)

(* C12: construct(order) fails exactly when order is not an int or is      *)
(* below 2; a successful construct yields a model of that order with an    *)
(* empty graph; the order of every constructed model is at least 2 and no  *)
(* step changes it.                                                        *)
C12_Constructed ==
    /\ last.op = "construct" =>
           LET arg == last.args[1]
           IN  /\ Failed(last) <=> (arg.type # "int" \/ arg.v < 2)
               /\ ~Failed(last) =>
                      /\ last.outcome = "ok"
                      /\ models[last.m] = [n |-> arg.v, graph |-> <<>>]
    /\ \A m \in ModelIds : Constructed(m) => models[m].n >= 2

C12_OrderFixed ==
    /\ []C12_Constructed
    /\ [][\A m \in ModelIds : Constructed(m) => models'[m].n = models[m].n]_vars

\* a construct with order 1 failed beside a trained model
C12_Witness ==
    /\ last.op = "construct"
    /\ last.outcome = "ValueError"
    /\ last.args[1].v = 1
    /\ \E m \in ModelIds : models[m].graph # <<>>

(* C13: get_ngrams(prefix) fails exactly when get_suffixes(prefix) fails,   *)
(* and with the same error; otherwise its keys are exactly the tuples      *)
(* prefix followed by s for the keys s of get_suffixes(prefix), each once, *)
(* with the probability get_suffixes gives to s, so it is empty exactly    *)
(* when get_suffixes(prefix) is.                                           *)
C13_NgramsFollowSuffixes ==
    last.op = "get_ngrams" =>
        LET suffixes == GetSuffixesOf(models, heap, last.m, last.args)
        IN  /\ last.outcome = suffixes.outcome
            /\ last.outcome = "ok" =>
                   /\ last.ret.type = "dict"
                   /\ Len(last.ret.v) = Len(suffixes.ret.v)
                   /\ KeySet(last.ret.v)
                          = {Tuple(Append(last.args, s)) : s \in KeySet(suffixes.ret.v)}
                   /\ \A e \in {suffixes.ret.v[i] : i \in 1..Len(suffixes.ret.v)} :
                          Get(last.ret.v, Tuple(Append(last.args, e.k))) = e.v

\* get_ngrams returned n-grams with different probabilities
C13_Witness ==
    /\ last.op = "get_ngrams"
    /\ last.outcome = "ok"
    /\ \E i, j \in 1..Len(last.ret.v) : last.ret.v[i].v # last.ret.v[j].v

(* C14: in every reachable state, failing calls and updates of a model     *)
(* with itself included, every prefix key of every model maps to a suffix  *)
(* mapping that is not empty and every count it holds is an integer of at  *)
(* least 1.                                                                *)
C14_CountsPositive ==
    \A m \in ModelIds : \A i \in 1..Len(models[m].graph) :
        LET r == models[m].graph[i].v
        IN  /\ r \in DOMAIN heap
            /\ heap[r] # <<>>
            /\ \A j \in 1..Len(heap[r]) : heap[r][j].v \in Nat \ {0}

\* a trained model was merged into itself
C14_Witness ==
    /\ last.op = "update"
    /\ last.outcome = "ok"
    /\ last.m = last.other
    /\ models[last.m].graph # <<>>

(* C15: the prefix key is lossy: prefixes of order-1 str tokens that spell  *)
(* the same string are indistinguishable.  get_suffixes and random_suffix  *)
(* give the same result for both; a successful add_ngram under one makes   *)
(* its last token a suffix that get_suffixes reports for the other; after  *)
(* a successful update the receiver reports for the one every suffix the   *)
(* argument recorded for the other.                                        *)
C15_SameReads ==
    \A m \in ModelIds : Constructed(m) =>
        \A p \in WordPrefixes(m), q \in WordPrefixes(m) :
            (p # q /\ Spelling(p) = Spelling(q)) =>
                /\ GetSuffixesOf(models, heap, m, p) = GetSuffixesOf(models, heap, m, q)
                /\ \A t \in Thresholds :
                       RandomSuffixOf(models, heap, m, p, t)
                           = RandomSuffixOf(models, heap, m, q, t)

C15_LossyPrefixKey ==
    /\ []C15_SameReads
    /\ [][(last'.op = "add_ngram" /\ last'.outcome = "ok") =>
            \A q \in WordPrefixes(last'.m) :
                Spelling(q) = Spelling(SubSeq(last'.args, 1, Len(last'.args) - 1)) =>
                    last'.args[Len(last'.args)]
                        \in KeySet(GetSuffixesOf(models', heap', last'.m, q).ret.v)]_vars
    /\ [][(last'.op = "update" /\ last'.outcome = "ok") =>
            \A p \in WordPrefixes(last'.m), q \in WordPrefixes(last'.m) :
                Spelling(p) = Spelling(q) =>
                    KeySet(GetSuffixesOf(models, heap, last'.other, p).ret.v)
                        \subseteq KeySet(GetSuffixesOf(models', heap', last'.m, q).ret.v)]_vars

\* a model of order 3 ingested an n-gram under the prefix ("a", "") and
\* reports its last token for the prefix ("", "a")
C15_Witness ==
    /\ last.op = "add_ngram"
    /\ last.outcome = "ok"
    /\ Len(last.args) = 3
    /\ SubSeq(last.args, 1, 2) = <<Str("a"), Str("")>>
    /\ last.args[3]
           \in KeySet(GetSuffixesOf(models, heap, last.m, <<Str(""), Str("a")>>).ret.v)

(* C16: random_sequence ends at any prefix with no observed suffixes: an   *)
(* iteration of the walk whose window is a prefix with no recorded suffix  *)
(* makes the call return the sequence generated so far.                    *)
C16_EndsAtUnobservedPrefix ==
    [][(/\ walk.active
        /\ CanJoin(walk.queue)
        /\ RecordedSuffixes(models, heap, walk.m, Join(walk.queue)) = {})
           => (last'.outcome = "ok" /\ last'.ret = List(walk.seq))]_vars

(* C17: during random_sequence the window is the last order-1 elements of  *)
(* the output sequence, and in a returned sequence every generated element *)
(* is a recorded suffix of the prefix key spelled by the order-1 elements  *)
(* just before it.                                                         *)
C17_WindowFollowsOutput ==
    /\ walk.active =>
           LET k == models[walk.m].n - 1
           IN  /\ Len(walk.queue) = k
               /\ Len(walk.seq) >= k
               /\ walk.queue = SubSeq(walk.seq, Len(walk.seq) - k + 1, Len(walk.seq))
    /\ (last.op = "random_sequence" /\ last.outcome = "ok") =>
           LET seq == last.ret.v
               k   == models[last.m].n - 1
           IN  \A i \in (k + 1)..Len(seq) :
                   /\ CanJoin(SubSeq(seq, i - k, i - 1))
                   /\ seq[i] \in RecordedSuffixes(models, heap, last.m,
                                                  Spelling(SubSeq(seq, i - k, i - 1)))

\* a walk of a model of order 3 returned after its window had slid
C17_Witness ==
    /\ last.op = "random_sequence"
    /\ last.outcome = "ok"
    /\ models[last.m].n = 3
    /\ Len(last.ret.v) >= 4

(* C18: an iteration of the walk whose window is a prefix with no recorded *)
(* suffix appends None to the output, pushes it into the window and goes   *)
(* on; the window then cannot be joined, and an iteration whose window     *)
(* cannot be joined ends the call with TypeError, so the call does not     *)
(* return a sequence.                                                      *)
C18_RaisesAfterAbsence ==
    /\ [][(/\ walk.active
           /\ CanJoin(walk.queue)
           /\ RecordedSuffixes(models, heap, walk.m, Join(walk.queue)) = {})
              => /\ last'.outcome = "running"
                 /\ walk'.active
                 /\ walk'.seq = Append(walk.seq, None)
                 /\ walk'.queue = Append(Tail(walk.queue), None)
                 /\ ~CanJoin(walk'.queue)]_vars
    /\ [][(walk.active /\ ~CanJoin(walk.queue))
              => /\ last'.outcome = "TypeError"
                 /\ ~walk'.active]_vars

\* a walk generated a token, then None, and was ended by TypeError
C18_Witness ==
    /\ last.op = "random_sequence"
    /\ last.outcome = "TypeError"
    /\ Len(last.ret.v) >= Len(last.args) + 2
    /\ last.ret.v[Len(last.ret.v)] = None
    /\ last.ret.v[Len(last.ret.v) - 1] # None

(* C19: update never aliases state between models: a successful add_ngram  *)
(* or update on one model, at any time and also for prefix keys the model  *)
(* first obtained from another by update, leaves the graph of every other  *)
(* model (for update, the argument's too) with the same keys and counts in *)
(* the same order; no suffix mapping belongs to two models.                *)
C19_Separate ==
    \A x \in ModelIds : \A y \in ModelIds \ {x} :
        {models[x].graph[i].v : i \in 1..Len(models[x].graph)}
            \cap {models[y].graph[i].v : i \in 1..Len(models[y].graph)} = {}

C19_UpdateNeverAliases ==
    /\ []C19_Separate
    /\ [][(last'.op \in {"add_ngram", "update"} /\ last'.outcome = "ok") =>
            \A x \in ModelIds \ {last'.m} :
                /\ models'[x] = models[x]
                /\ \A i \in 1..Len(models[x].graph) :
                       heap'[models[x].graph[i].v] = heap[models[x].graph[i].v]]_vars

\* model A was trained under a prefix key that it obtained from B by update:
\* it holds the suffix "b" there, which no add_ngram of this lifecycle
\* brings, and a suffix that B does not hold
C19_Witness ==
    /\ last.op = "add_ngram"
    /\ last.outcome = "ok"
    /\ last.m = "A"
    /\ LET key  == Join(SubSeq(last.args, 1, Len(last.args) - 1))
           dest == last.args[Len(last.args)]
       IN  /\ CountOf(models, heap, "A", key, Str("b")) >= 1
           /\ CountOf(models, heap, "B", key, Str("b")) >= 1
           /\ CountOf(models, heap, "A", key, dest) = 1
           /\ CountOf(models, heap, "B", key, dest) = 0

(* C20: merging is replaying: a successful A.update(B) leaves A with the   *)
(* counts that add_ngram on A, once for every n-gram of a corpus, gives,   *)
(* for every corpus (in every order) whose ingestion into a new model      *)
(* gives the counts of B; and A.update(B) followed by A.update(C) gives A  *)
(* the same counts as A.update(C) followed by A.update(B).                 *)
C20_MergeIsReplay ==
    [][(last'.op = "update" /\ last'.outcome = "ok" /\ last'.m # last'.other) =>
         LET A == last'.m
             B == last'.other
             k == TotalCount(models, heap, B)
         IN  /\ k <= MaxCorpus =>
                   \A corpus \in [1..k -> [1..models[B].n -> Words]] :
                       LET new    == Ingest([m \in DOMAIN models |-> Fresh(models[B].n)],
                                            EmptyHeap, B, corpus)
                           replay == Ingest(models, heap, A, corpus)
                       IN  SameCounts(new.models, new.heap, B, models, heap, B) =>
                               SameCounts(replay.models, replay.heap, A,
                                          models', heap', A)
             /\ \A C \in DOMAIN models \ {A} :
                    LET BC == UpdateStore(models', heap', A, C, 1)
                        C1 == UpdateStore(models, heap, A, C, 1)
                        CB == UpdateStore(C1.models, C1.heap, A, B, 1)
                    IN  SameCounts(BC.models, BC.heap, A, CB.models, CB.heap, A)]_vars

\* a model that had ingested the same n-gram twice was merged into a model
\* that held that pair
C20_Witness ==
    /\ last.op = "update"
    /\ last.outcome = "ok"
    /\ last.m # last.other
    /\ TotalCount(models, heap, last.other) = 2
    /\ \E p \in KeySet(models[last.m].graph), s \in SuffixesOf(heap) :
           /\ CountOf(models, heap, last.other, p, s) = 2
           /\ CountOf(models, heap, last.m, p, s) >= 3

====
